---- MODULE Spec2Model ----
(***************************************************************************)
(* Matrix PMS: cookie/JWT authentication, the access gates of the          *)
(* protected routes, the login endpoint and the soft-delete handlers.      *)
(*                                                                         *)
(* Strings whose characters matter (phones, passwords) are sequences of    *)
(* one-character strings.  URLs are sequences of their components, so that *)
(* str(request.url) and request.url.path are different values.             *)
(* Time is in seconds.                                                     *)
(***************************************************************************)
EXTENDS Integers, Sequences, FiniteSets, TLC

\* SECRET_KEY is the module attribute of utils/helper_auth.py and
\* utils/helpers.py, set at import to os.getenv("JWT_SECRET_KEY")
VARIABLES users, rows, now, ticks, tz, cookie, req, SECRET_KEY

vars == <<users, rows, now, ticks, tz, cookie, req, SECRET_KEY>>

(***************************************************************************)
(* Bounds                                                                  *)
(***************************************************************************)
MaxTicks == 1

(***************************************************************************)
(* Program constants                                                       *)
(***************************************************************************)
ACCESS_TOKEN_EXPIRE_MINUTES == 10080
DefaultExpireMinutes == 15
HTTP_303_SEE_OTHER == 303
HTTP_401_UNAUTHORIZED == 401

\* the value of the environment variable JWT_SECRET_KEY when it is set; None
\* is what os.getenv returns when it is not
JWT_SECRET_KEY == "k_server"
OtherKey == "k_other"
None == "None"

\* READ_ONLY_FIELDS of core/templating.py
READ_ONLY_FIELDS == {"id", "created_at", "created_by"}

(***************************************************************************)
(* Environment: clock steps and the server's local-time offsets from UTC   *)
(***************************************************************************)
TickSteps == {1, DefaultExpireMinutes * 60}
TzOffsets == {0 - 3600, 0, 10800}

(***************************************************************************)
(* Strings                                                                 *)
(***************************************************************************)
Digits == {"0", "1", "2", "3", "4", "5", "6", "7", "8", "9"}

\* str.strip(): drop leading and trailing whitespace
RECURSIVE LStrip(_)
LStrip(s) == IF s # <<>> /\ Head(s) = " " THEN LStrip(Tail(s)) ELSE s

RECURSIVE RStrip(_)
RStrip(s) ==
    IF s # <<>> /\ s[Len(s)] = " " THEN RStrip(SubSeq(s, 1, Len(s) - 1)) ELSE s

Strip(s) == RStrip(LStrip(s))

\* s[-n:]
LastN(s, n) == IF Len(s) <= n THEN s ELSE SubSeq(s, Len(s) - n + 1, Len(s))

AllDigits(s) == \A i \in 1..Len(s) : s[i] \in Digits

\* KENYAN_PHONE_REGEX = ^(?:\+254|0)[17]\d{8}$
\* ($ also matches before one trailing newline; inputs here have none)
KenyanPhoneMatch(s) ==
    \/ /\ Len(s) = 10
       /\ s[1] = "0"
       /\ s[2] \in {"1", "7"}
       /\ AllDigits(SubSeq(s, 3, 10))
    \/ /\ Len(s) = 13
       /\ SubSeq(s, 1, 4) = <<"+", "2", "5", "4">>
       /\ s[5] \in {"1", "7"}
       /\ AllDigits(SubSeq(s, 6, 13))

normalize_phone(phone) == <<"2", "5", "4">> \o LastN(phone, 9)

\* hashlib.sha256(password_bytes).hexdigest() on the passwords of the model
Sha256Hex(bytes) ==
    CASE bytes = <<"s", "e", "c", "r", "e", "t", "1", "2", "3">> ->
            "fcf730b6d95236ecd3c9fc2d92d7b6b2bb061514961aec041d6c7a7192f592e4"
      [] bytes = <<"p", "w">> ->
            "30c952fab122c3f9759f02a6d95c3758b246b4fee239957b2d4fee46e26170c4"
      [] bytes = <<"x">> ->
            "2d711642b726b04401627ca9fbac32f5c8530fb1903cc4db02258717921a4881"
      [] bytes = <<" ">> ->
            "36a9e7f1c95b82ffb99743e0c5c4ce95d83c9a430aac59f84ef3cbfab6145068"
      [] bytes = <<>> ->
            "e3b0c44298fc1c149afbf4c8996fb92427ae41e4649b934ca495991b7852b855"

hash_password(password) == Sha256Hex(password)

(***************************************************************************)
(* Users, tokens                                                           *)
(***************************************************************************)
\* Users.id values (uuid.UUID); u9 is the id of no user of any store
UserIds == {"u1", "u2"}
UnknownId == "u9"
NoUser == "-"

Phone1 == <<"2", "5", "4", "7", "1", "2", "3", "4", "5", "6", "7", "8">>
Phone2 == <<"2", "5", "4", "1", "1", "2", "3", "4", "5", "6", "7", "8">>
Secret123 == <<"s", "e", "c", "r", "e", "t", "1", "2", "3">>
Pw2 == <<"p", "w">>

\* rows of the Users table (utils/models.py): phone is unique, password
\* holds the digest
UserRow(u) ==
    IF u = "u1"
    THEN [phone |-> Phone1, password |-> hash_password(Secret123), status |-> "active"]
    ELSE [phone |-> Phone2, password |-> hash_password(Pw2), status |-> "active"]

InitUsers == [u \in UserIds |-> UserRow(u)]

\* the value of a token's "sub" claim: absent, str(uuid), a decimal string,
\* or any other text
NoSub == [kind |-> "none", v |-> "-"]
UuidText(u) == [kind |-> "uuid", v |-> u]
DigitsText == [kind |-> "digits", v |-> "5"]
OtherText == [kind |-> "text", v |-> "abc"]

\* the access_token cookie: absent, empty, or a compact JWS
NoCookie == [kind |-> "absent", wellformed |-> FALSE, key |-> "-", exp |-> 0, sub |-> NoSub]
EmptyCookie == [kind |-> "empty", wellformed |-> FALSE, key |-> "-", exp |-> 0, sub |-> NoSub]
Garbage == [kind |-> "jwt", wellformed |-> FALSE, key |-> "-", exp |-> 0, sub |-> NoSub]
Jwt(key, exp, sub) ==
    [kind |-> "jwt", wellformed |-> TRUE, key |-> key, exp |-> exp, sub |-> sub]

\* what jwt.encode raises instead of returning a token
EncodeError(e) == [kind |-> e, wellformed |-> FALSE, key |-> "-", exp |-> 0, sub |-> NoSub]

\* jwt.encode(to_encode, SECRET_KEY, algorithm=ALGORITHM): a datetime exp is
\* written as timegm(exp.utctimetuple()), which reads a naive datetime as UTC;
\* the HMAC key must be str or bytes, None raises TypeError
jwt_encode(payload, key) ==
    IF key = None THEN EncodeError("TypeError")
    ELSE Jwt(key, payload.exp, payload.sub)

\* datetime.now(): naive local wall-clock time, as seconds
LocalNow(t, offset) == t + offset

create_access_token(data, expires_delta, t, offset) ==
    LET delta == IF expires_delta # 0 THEN expires_delta ELSE DefaultExpireMinutes * 60
        expire == LocalNow(t, offset) + delta
        to_encode == [sub |-> data.sub, exp |-> expire]
    IN  jwt_encode(to_encode, SECRET_KEY)

\* mutant: exp is not verified (options={"verify_exp": False})
ExpiredAt_NotVerified(exp, t) == FALSE

\* PyJWT validates exp as: exp <= now -> ExpiredSignatureError
ExpiredAt(exp, t) == exp <= t

\* mutant: the signature is not verified (options={"verify_signature": False})
jwt_decode_NoSignature(token, key, t) ==
    IF ~token.wellformed THEN [exc |-> "InvalidTokenError", sub |-> NoSub]
    ELSE IF token.exp <= t THEN [exc |-> "ExpiredSignatureError", sub |-> NoSub]
    ELSE [exc |-> "", sub |-> token.sub]

\* jwt.decode(token, SECRET_KEY, algorithms=[ALGORITHM]): structure, then
\* signature (the key is prepared first: None raises TypeError), then exp
jwt_decode(token, key, t) ==
    IF ~token.wellformed THEN [exc |-> "InvalidTokenError", sub |-> NoSub]
    ELSE IF key = None THEN [exc |-> "TypeError", sub |-> NoSub]
    ELSE IF token.key # key THEN [exc |-> "InvalidTokenError", sub |-> NoSub]
    ELSE IF ExpiredAt(token.exp, t) THEN [exc |-> "ExpiredSignatureError", sub |-> NoSub]
    ELSE [exc |-> "", sub |-> token.sub]

\* except (jwt.ExpiredSignatureError, jwt.InvalidTokenError)
JwtErrors == {"ExpiredSignatureError", "InvalidTokenError"}

\* int(payload.get("sub") or 0): the text of a UUID has dashes and is no
\* integer literal
IntOfSub(sub) ==
    IF sub.kind = "none" THEN [exc |-> "", v |-> [kind |-> "int", v |-> "0"]]
    ELSE IF sub.kind = "digits" THEN [exc |-> "", v |-> [kind |-> "int", v |-> sub.v]]
    ELSE [exc |-> "ValueError", v |-> sub]

\* select(Users).where(Users.id == value).scalar_one_or_none().  Users.id is
\* a UUID column.  None matches no row; the text of a UUID is compared as that
\* UUID; for any other value (an int, other text) the driver either raises
\* or matches no row, which `strict` decides.
\* session is the request's AsyncSession, or the Depends placeholder that a
\* direct call of the dependency leaves in the parameter.
SelectUser(store, value, session, strict) ==
    IF session # "session" THEN [exc |-> "AttributeError", user |-> NoUser]
    ELSE IF value.kind = "none" THEN [exc |-> "", user |-> NoUser]
    ELSE IF value.kind = "uuid"
    THEN [exc |-> "", user |-> IF value.v \in DOMAIN store THEN value.v ELSE NoUser]
    ELSE IF strict THEN [exc |-> "DBAPIError", user |-> NoUser]
    ELSE [exc |-> "", user |-> NoUser]

(***************************************************************************)
(* Requests and responses                                                  *)
(***************************************************************************)
Base == "http://host"

\* str(request.url) and request.url.path
UrlStr(url) ==
    <<url.base, url.path>> \o url.tail
        \o (IF url.query = "" THEN <<>> ELSE <<"?", url.query>>)
UrlPath(url) == <<url.path>> \o url.tail

NoLocation == <<>>

\* outcomes of a dependency or of a handler: a returned value or a raised
\* exception
RetUser(u) == [kind |-> "user", user |-> u, location |-> NoLocation, exc |-> ""]
RetRedirect(loc) ==
    [kind |-> "redirect", user |-> NoUser, location |-> loc, exc |-> ""]
Raised(e) == [kind |-> "raise", user |-> NoUser, location |-> NoLocation, exc |-> e]
NoGate == [kind |-> "-", user |-> NoUser, location |-> NoLocation, exc |-> ""]

CookieMissing(token) == token.kind \in {"absent", "empty"}

\* utils/helper_auth.py
get_current_user_or_redirect(url, token, store, t, strict) ==
    LET login == RetRedirect(<<"/login?next=">> \o UrlStr(url))
        payload == jwt_decode(token, SECRET_KEY, t)
        user_id == IntOfSub(payload.sub)
        found == SelectUser(store, user_id.v, "session", strict)
    IN  IF CookieMissing(token) THEN login
        ELSE IF payload.exc \in JwtErrors THEN login
        ELSE IF payload.exc # "" THEN Raised(payload.exc)
        ELSE IF user_id.exc # "" THEN login
        ELSE IF found.exc # "" THEN Raised(found.exc)
        ELSE IF found.user = NoUser THEN login
        ELSE RetUser(found.user)

\* mutant: the `if not user` check is missing
get_current_user_NoUserCheck(token, store, t, session, strict) ==
    LET payload == jwt_decode(token, SECRET_KEY, t)
        found == SelectUser(store, payload.sub, session, strict)
    IN  IF CookieMissing(token) THEN Raised("HTTPException401")
        ELSE IF payload.exc \in JwtErrors THEN Raised("HTTPException401")
        ELSE IF payload.exc # "" THEN Raised(payload.exc)
        ELSE IF found.exc # "" THEN Raised(found.exc)
        ELSE RetUser(found.user)

\* mutant: only users whose status is "active" are returned
get_current_user_ActiveOnly(token, store, t, session, strict) ==
    LET payload == jwt_decode(token, SECRET_KEY, t)
        found == SelectUser(store, payload.sub, session, strict)
    IN  IF CookieMissing(token) THEN Raised("HTTPException401")
        ELSE IF payload.exc \in JwtErrors THEN Raised("HTTPException401")
        ELSE IF payload.exc # "" THEN Raised(payload.exc)
        ELSE IF found.exc # "" THEN Raised(found.exc)
        ELSE IF found.user = NoUser THEN Raised("HTTPException401")
        ELSE IF store[found.user].status # "active" THEN Raised("HTTPException401")
        ELSE RetUser(found.user)

\* mutant: a missing cookie is answered like the redirecting gate does
get_current_user_RedirectsNoCookie(token, store, t, session, strict) ==
    LET payload == jwt_decode(token, SECRET_KEY, t)
        found == SelectUser(store, payload.sub, session, strict)
    IN  IF CookieMissing(token) THEN RetRedirect(<<"/login?next=", "/">>)
        ELSE IF payload.exc \in JwtErrors THEN Raised("HTTPException401")
        ELSE IF payload.exc # "" THEN Raised(payload.exc)
        ELSE IF found.exc # "" THEN Raised(found.exc)
        ELSE IF found.user = NoUser THEN Raised("HTTPException401")
        ELSE RetUser(found.user)

\* utils/helpers.py
get_current_user(token, store, t, session, strict) ==
    LET payload == jwt_decode(token, SECRET_KEY, t)
        found == SelectUser(store, payload.sub, session, strict)
    IN  IF CookieMissing(token) THEN Raised("HTTPException401")
        ELSE IF payload.exc \in JwtErrors THEN Raised("HTTPException401")
        ELSE IF payload.exc # "" THEN Raised(payload.exc)
        ELSE IF found.exc # "" THEN Raised(found.exc)
        ELSE IF found.user = NoUser THEN Raised("HTTPException401")
        ELSE RetUser(found.user)

\* utils/helpers.py
require_user(url, token, store, t, strict) ==
    LET r == get_current_user(token, store, t, "session", strict)
    IN  IF r.kind = "raise" /\ r.exc = "HTTPException401"
        THEN RetRedirect(<<"/login?next=">> \o UrlPath(url))
        ELSE r

(***************************************************************************)
(* Business rows and the soft-delete helpers                               *)
(***************************************************************************)
Tables == {"landlords", "apartments", "house_units", "tenants"}
RowIds == {"r1"}

\* the text of an id parameter: "" (absent), the UUID of a row ("r1", "r2",
\* "r3"), a UUID of no row ("r9"), or text that is no UUID
IsUuidText(id) == id \in {"r1", "r2", "r3", "r9"}

DefaultStatus(table) ==
    CASE table = "house_units" -> "vacant"
      [] table = "tenants" -> "unassigned"
      [] OTHER -> "active"

\* a row as far as the handlers below read or write it (updated_at, a
\* timestamp no query reads, is left out); a column the row does not show
\* has the value it was created with
NewRow(table, id) ==
    [id |-> id, status |-> DefaultStatus(table), created_at |-> 0,
     created_by |-> "u1", updated_by |-> NoUser]

InitRows == [t \in Tables |-> [r \in RowIds |-> NewRow(t, r)]]

\* mutant: class Tenants has a house_unit_id
TenantsColumns_WithHouseUnit ==
    {"id", "name", "phone", "id_number", "email", "next_of_kin",
     "next_of_kin_phone", "occupation", "employer", "status", "house_unit_id",
     "created_at", "created_by", "updated_at", "updated_by"}

\* the attributes of class Tenants (utils/models.py): it has no house_unit_id
TenantsColumns ==
    {"id", "name", "phone", "id_number", "email", "next_of_kin",
     "next_of_kin_phone", "occupation", "employer", "status", "created_at",
     "created_by", "updated_at", "updated_by"}

\* the attributes of the classes of utils/models.py
Columns(table) ==
    CASE table = "landlords" ->
            {"id", "name", "phone", "id_number", "email", "kra_pin", "address",
             "bank_name", "bank_account", "commission_rate", "status",
             "created_at", "created_by", "updated_at", "updated_by"}
      [] table = "apartments" ->
            {"id", "name", "location", "landlord_id", "water_unit_rate",
             "garbage_charge", "service_charge", "status", "created_at",
             "created_by", "updated_at", "updated_by"}
      [] table = "house_units" ->
            {"id", "name", "apartment_id", "house_type_id", "status",
             "created_at", "created_by", "updated_at", "updated_by"}
      [] table = "tenants" -> TenantsColumns

\* mutant: the READ_ONLY_FIELDS guard is missing
Settable_NoGuard(updates) == DOMAIN updates

\* the fields of updates that setattr is called with
Settable(updates) == DOMAIN updates \ READ_ONLY_FIELDS

\* mutant: setattr takes every name
SetAttrRaises_Never(table, updates) == FALSE

\* setattr(row, field, value) on an SQLModel object: a name that is no field
\* of the class raises ValueError
SetAttrRaises(table, updates) ==
    \E f \in Settable(updates) : f \notin Columns(table)

\* for field, value in updates.items():
\*     if field not in READ_ONLY_FIELDS: setattr(row, field, value)
SetAttrs(row, updates) ==
    [f \in DOMAIN row \cup Settable(updates) |->
        IF f \in Settable(updates) THEN updates[f] ELSE row[f]]

Commit(db, table, id, row) == [db EXCEPT ![table][id] = row]

\* the handlers' result tuples, as sequences: <<success, errors, row>>
Ok3(msg) == <<msg, None, "row">>
Err3(msg) == <<None, msg, None>>
Err2(msg) == <<None, msg>>

\* routes/landlords.py
update_landlord(db, current_user, id, columns_key_value, commitOk) ==
    IF ~IsUuidText(id) THEN [db |-> db, wrote |-> FALSE, ret |-> Err2("ValueError")]
    ELSE IF id \notin DOMAIN db["landlords"]
    THEN [db |-> db, wrote |-> FALSE, ret |-> Err3("not found")]
    ELSE
        LET old == db["landlords"][id]
            toggle == "toggle_status" \in DOMAIN columns_key_value
                        /\ columns_key_value["toggle_status"] = TRUE
            set == IF toggle
                   THEN [old EXCEPT !.status =
                            IF old.status = "active" THEN "inactive" ELSE "active"]
                   ELSE SetAttrs(old, columns_key_value)
            new == [set EXCEPT !.updated_by = current_user]
        IN  IF ~toggle /\ SetAttrRaises("landlords", columns_key_value)
            THEN [db |-> db, wrote |-> FALSE, ret |-> Err2("ValueError")]
            ELSE IF commitOk
            THEN [db |-> Commit(db, "landlords", id, new), wrote |-> TRUE, ret |-> Ok3("updated")]
            ELSE [db |-> db, wrote |-> FALSE, ret |-> Err2("commit failed")]

\* routes/apartments.py
update_apartment(db, current_user, apartment_id, updates, action, commitOk) ==
    IF ~IsUuidText(apartment_id) THEN [db |-> db, wrote |-> FALSE, ret |-> Err3("Invalid apartment ID")]
    ELSE IF apartment_id \notin DOMAIN db["apartments"]
    THEN [db |-> db, wrote |-> FALSE, ret |-> Err3("not found")]
    ELSE
        LET old == db["apartments"][apartment_id]
            new == [SetAttrs(old, updates) EXCEPT !.updated_by = current_user]
        IN  IF SetAttrRaises("apartments", updates)
            THEN [db |-> db, wrote |-> FALSE, ret |-> Err3("ValueError")]
            ELSE IF commitOk
            THEN [db |-> Commit(db, "apartments", apartment_id, new), wrote |-> TRUE, ret |-> Ok3(action)]
            ELSE [db |-> db, wrote |-> FALSE, ret |-> Err3("commit failed")]

\* routes/house_units.py
update_house_unit(db, current_user, house_unit_id, updates, action, commitOk) ==
    IF ~IsUuidText(house_unit_id)
    THEN [db |-> db, wrote |-> FALSE, ret |-> Err3("Invalid house_unit ID")]
    ELSE IF house_unit_id \notin DOMAIN db["house_units"]
    THEN [db |-> db, wrote |-> FALSE, ret |-> Err3("not found")]
    ELSE
        LET old == db["house_units"][house_unit_id]
            new == [SetAttrs(old, updates) EXCEPT !.updated_by = current_user]
        IN  IF SetAttrRaises("house_units", updates)
            THEN [db |-> db, wrote |-> FALSE, ret |-> Err3("ValueError")]
            ELSE IF commitOk
            THEN [db |-> Commit(db, "house_units", house_unit_id, new), wrote |-> TRUE, ret |-> Ok3(action)]
            ELSE [db |-> db, wrote |-> FALSE, ret |-> Err3("commit failed")]

\* routes/tenants.py
update_tenant(db, current_user, tenant_id, updates, action, commitOk) ==
    IF tenant_id # "" /\ ~IsUuidText(tenant_id)
    THEN [db |-> db, wrote |-> FALSE, ret |-> Err3("Invalid tenant ID")]
    ELSE IF tenant_id \notin DOMAIN db["tenants"]
    THEN [db |-> db, wrote |-> FALSE, ret |-> Err3("not found")]
    ELSE
        LET old == db["tenants"][tenant_id]
            new == [SetAttrs(old, updates) EXCEPT !.updated_by = current_user]
        IN  IF SetAttrRaises("tenants", updates)
            THEN [db |-> db, wrote |-> FALSE, ret |-> Err3("ValueError")]
            ELSE IF commitOk
            THEN [db |-> Commit(db, "tenants", tenant_id, new), wrote |-> TRUE, ret |-> Ok3(action)]
            ELSE [db |-> db, wrote |-> FALSE, ret |-> Err3("commit failed")]

(***************************************************************************)
(* The queries of the list pages, the selector lists and the dashboard     *)
(***************************************************************************)
\* mutant: the status filter is missing
Live_NoFilter(db, table) == DOMAIN db[table]

\* .where(<Table>.status != "deleted")
Live(db, table) == {r \in DOMAIN db[table] : db[table][r].status # "deleted"}

\* the foreign keys Apartments.landlord_id and House_Units.apartment_id of
\* the rows of the model; no handler modelled here writes them
LandlordOf(apartment) == "r1"
ApartmentOf(house_unit) == "r1"

\* the house unit a tenant row refers to, were there such a column
HouseUnitOf(tenant) == "r1"

\* what a page shows: the rows of its list, the rows of its landlord and
\* apartment selectors, and the dashboard's counts; exc is the exception
\* raised while the query was built.  (The per-row figures of
\* landlords.html and apartments.html, counts over outer joins, are not part
\* of it.)
NoView ==
    [list |-> {}, landlords |-> {}, apartments |-> {},
     counts |-> [t \in Tables |-> 0], exc |-> ""]

\* Tenants.house_unit_id in a join condition: AttributeError when the class
\* has no such attribute
JoinTenants(view) ==
    IF "house_unit_id" \in TenantsColumns THEN view
    ELSE [NoView EXCEPT !.exc = "AttributeError"]

\* get_landlords of routes/apartments.py, routes/house_units.py and
\* utils/helpers.py
get_landlords(db) == Live(db, "landlords")

\* get_apartments of routes/house_units.py and utils/helpers.py
get_apartments(db) == Live(db, "apartments")

\* routes/landlords.py get: the list query
landlords_data(db) == [NoView EXCEPT !.list = Live(db, "landlords")]

\* routes/apartments.py; the statement joins Tenants on
\* Tenants.house_unit_id
get_apartments_data(db) ==
    JoinTenants(
        [NoView EXCEPT
            !.list = {a \in Live(db, "apartments") :
                        LandlordOf(a) \in Live(db, "landlords")},
            !.landlords = get_landlords(db)])

\* routes/house_units.py; the statement joins Tenants on
\* Tenants.house_unit_id
get_house_units_data(db) ==
    JoinTenants(
        [NoView EXCEPT
            !.list = {h \in Live(db, "house_units") :
                        /\ ApartmentOf(h) \in Live(db, "apartments")
                        /\ LandlordOf(ApartmentOf(h)) \in Live(db, "landlords")},
            !.apartments = get_apartments(db),
            !.landlords = get_landlords(db)])

\* routes/tenants.py; the statement joins House_Units on
\* Tenants.house_unit_id
get_tenants_data(db, show_deleted) ==
    JoinTenants(
        [NoView EXCEPT
            !.list = IF show_deleted THEN DOMAIN db["tenants"]
                     ELSE {t \in Live(db, "tenants") :
                             /\ HouseUnitOf(t) \in Live(db, "house_units")
                             /\ ApartmentOf(HouseUnitOf(t)) \in Live(db, "apartments")
                             /\ LandlordOf(ApartmentOf(HouseUnitOf(t)))
                                    \in Live(db, "landlords")},
            !.apartments = get_apartments(db),
            !.landlords = get_landlords(db)])

\* routes/dashboard.py: the four count subqueries
dashboard_counts(db) ==
    [NoView EXCEPT !.counts = [t \in Tables |-> Cardinality(Live(db, t))]]

(***************************************************************************)
(* Routes                                                                  *)
(***************************************************************************)
\* the dependency each protected handler declares (apartments.py and
\* house_units.py import get_current_user and require_user by name)
GateOf(route) ==
    CASE route = "dashboard" -> "require_user"
      [] route = "landlords" -> "get_current_user_or_redirect"
      [] route = "apartments_list" -> "get_current_user"
      [] route = "apartments_delete" -> "get_current_user"
      [] route = "house_units_list" -> "require_user"
      [] route = "house_units_delete" -> "require_user"
      [] route = "tenants_post" -> "require_user"
      [] route = "tenants_edit" -> "require_user"

PathOf(route) ==
    CASE route = "dashboard" -> "/dashboard"
      [] route = "landlords" -> "/landlords"
      [] route = "apartments_list" -> "/apartments"
      [] route = "apartments_delete" -> "/apartments"
      [] route = "house_units_list" -> "/house-units"
      [] route = "house_units_delete" -> "/house-units"
      [] route = "tenants_post" -> "/tenants"
      [] route = "tenants_edit" -> "/tenants/edit/"
      [] route = "login" -> "/login"
      [] OTHER -> "/"

ProtectedRoutes ==
    {"dashboard", "landlords", "apartments_list", "apartments_delete",
     "house_units_list", "house_units_delete", "tenants_post", "tenants_edit"}

NoPhone == <<>>
NoArg ==
    [toggle_status_id |-> "", delete_id |-> "", restore_id |-> "", id |-> "",
     phone |-> NoPhone, password |-> <<>>, next |-> <<>>]

\* the query and form parameters a request to a protected route carries
ArgsOf(route) ==
    CASE route = "landlords" ->
            {NoArg, [NoArg EXCEPT !.toggle_status_id = "r1"],
             [NoArg EXCEPT !.delete_id = "r1"]}
      [] route = "apartments_delete" ->
            {[NoArg EXCEPT !.delete_id = "r1"], [NoArg EXCEPT !.delete_id = "bad"]}
      [] route = "house_units_delete" -> {[NoArg EXCEPT !.delete_id = "r1"]}
      [] route = "tenants_post" ->
            {[NoArg EXCEPT !.delete_id = "r1"], [NoArg EXCEPT !.restore_id = "r1"]}
      [] route = "tenants_edit" -> {[NoArg EXCEPT !.id = "a&b"]}
      [] OTHER -> {NoArg}

\* request.url: only query parameters are part of it, form fields are not
QueryOf(route, arg) ==
    IF route # "landlords" THEN ""
    ELSE IF arg.toggle_status_id # "" THEN "toggle_status_id"
    ELSE IF arg.delete_id # "" THEN "delete_id"
    ELSE ""

\* the characters of the {id} path parameter, as the server sees them
\* (percent-decoded): "&" is a character of its own
PathParam(id) ==
    IF id = "" THEN <<>>
    ELSE IF id = "a&b" THEN <<"a", "&", "b">>
    ELSE <<id>>

UrlOf(route, arg) ==
    [base |-> Base, path |-> PathOf(route), tail |-> PathParam(arg.id),
     query |-> QueryOf(route, arg)]

NoResp ==
    [status |-> 0, location |-> NoLocation, page |-> "", success |-> None,
     errors |-> <<>>, view |-> NoView, set_cookie |-> NoCookie, max_age |-> 0]

TemplateResponse(page, success, errors) ==
    [NoResp EXCEPT !.status = 200, !.page = page, !.success = success,
                   !.errors = errors]

\* what the framework answers when a dependency or a handler raises
ErrorResponse(exc) ==
    [NoResp EXCEPT !.status =
        IF exc = "HTTPException401" THEN HTTP_401_UNAUTHORIZED ELSE 500]

\* a page with the rows its context holds, unless the query for them raised
Page(page, success, errors, view) ==
    IF view.exc # "" THEN ErrorResponse(view.exc)
    ELSE [TemplateResponse(page, success, errors) EXCEPT !.view = view]

RedirectResponse(loc) ==
    [NoResp EXCEPT !.status = HTTP_303_SEE_OTHER, !.location = loc]

NoRan == [body |-> 0, reads |-> FALSE, writes |-> FALSE, state_user |-> NoUser]

\* a direct call of one of the functions of routes/: its arguments and
\* what it returned
NoCall ==
    [fn |-> "", table |-> "", id |-> "", updates |-> <<>>, user |-> NoUser,
     ret |-> <<>>]

Idle ==
    [phase |-> "idle", route |-> "", arg |-> NoArg, token |-> NoCookie, at |-> 0,
     gate |-> NoGate, resp |-> NoResp, ran |-> NoRan, call |-> NoCall]

(***************************************************************************)
(* Handler bodies: what runs after the isinstance(current_user,            *)
(* RedirectResponse) check                                                 *)
(***************************************************************************)
Body(db, resp, reads, writes) ==
    [db |-> db, resp |-> resp, reads |-> reads, writes |-> writes]

Msg(x) == IF x = None THEN <<>> ELSE <<x>>

\* routes/dashboard.py get_dashboard: four counts of rows not deleted
dashboard_body(db) ==
    Body(db, Page("dashboard.html", None, <<>>, dashboard_counts(db)), TRUE, FALSE)

\* routes/landlords.py get
landlords_body(db, current_user, arg, commitOk) ==
    LET t == IF arg.toggle_status_id # ""
             THEN update_landlord(db, current_user, arg.toggle_status_id,
                                  [toggle_status |-> TRUE], commitOk)
             ELSE [db |-> db, wrote |-> FALSE, ret |-> <<None, None, None>>]
        d == IF arg.delete_id # ""
             THEN update_landlord(t.db, current_user, arg.delete_id,
                                  [status |-> "deleted"], commitOk)
             ELSE [t EXCEPT !.wrote = FALSE]
    IN  IF Len(t.ret) # 3
        THEN Body(t.db, ErrorResponse("ValueError"), TRUE, t.wrote)
        ELSE IF Len(d.ret) # 3
        THEN Body(d.db, ErrorResponse("ValueError"), TRUE, t.wrote \/ d.wrote)
        ELSE Body(d.db, Page("landlords.html", d.ret[1], Msg(d.ret[2]),
                             landlords_data(d.db)),
                  TRUE, t.wrote \/ d.wrote)

\* routes/apartments.py list_apartments
apartments_list_body(db) ==
    Body(db, Page("apartments.html", None, <<>>, get_apartments_data(db)), TRUE, FALSE)

\* routes/apartments.py delete_apartment
apartments_delete_body(db, current_user, arg, commitOk) ==
    LET r == IF arg.delete_id # ""
             THEN update_apartment(db, current_user, arg.delete_id,
                                   [status |-> "deleted"], "deleted", commitOk)
             ELSE [db |-> db, wrote |-> FALSE, ret |-> <<None, None, None>>]
    IN  Body(r.db, Page("apartments.html", r.ret[1], Msg(r.ret[2]),
                        get_apartments_data(r.db)),
             TRUE, r.wrote)

\* routes/house_units.py list_house_units
house_units_list_body(db) ==
    Body(db, Page("house-units.html", None, <<>>, get_house_units_data(db)), TRUE, FALSE)

\* routes/house_units.py delete_house_units
house_units_delete_body(db, current_user, arg, commitOk) ==
    LET r == IF arg.delete_id # ""
             THEN update_house_unit(db, current_user, arg.delete_id,
                                    [status |-> "deleted"], "deleted", commitOk)
             ELSE [db |-> db, wrote |-> FALSE, ret |-> <<None, None, None>>]
    IN  Body(r.db, Page("house-units.html", r.ret[1], Msg(r.ret[2]),
                        get_house_units_data(r.db)),
             TRUE, r.wrote)

\* routes/tenants.py post
tenants_post_body(db, current_user, arg, commitOk) ==
    LET r == IF arg.delete_id # "" \/ arg.restore_id # ""
             THEN update_tenant(
                    db, current_user,
                    IF arg.delete_id # "" THEN arg.delete_id ELSE arg.restore_id,
                    [status |-> IF arg.delete_id # "" THEN "deleted" ELSE "unassigned"],
                    IF arg.delete_id # "" THEN "deleted" ELSE "restored", commitOk)
             ELSE [db |-> db, wrote |-> FALSE, ret |-> <<None, None, None>>]
    IN  Body(r.db, Page("tenants.html", r.ret[1], Msg(r.ret[2]),
                        get_tenants_data(r.db, FALSE)),
             TRUE, r.wrote)

\* routes/tenants.py edit_tenant_form: parse_uuid, then render_edit_tenant
\* selects the tenant
tenants_edit_body(db, arg) ==
    LET found == IsUuidText(arg.id) /\ arg.id \in DOMAIN db["tenants"]
    IN  Body(db,
             TemplateResponse("tenants-edit.html", None,
                              IF found THEN <<>> ELSE <<"Tenant not found">>),
             TRUE, FALSE)

BodyOf(route, db, current_user, arg, commitOk) ==
    CASE route = "dashboard" -> dashboard_body(db)
      [] route = "landlords" -> landlords_body(db, current_user, arg, commitOk)
      [] route = "apartments_list" -> apartments_list_body(db)
      [] route = "apartments_delete" ->
            apartments_delete_body(db, current_user, arg, commitOk)
      [] route = "house_units_list" -> house_units_list_body(db)
      [] route = "house_units_delete" ->
            house_units_delete_body(db, current_user, arg, commitOk)
      [] route = "tenants_post" -> tenants_post_body(db, current_user, arg, commitOk)
      [] route = "tenants_edit" -> tenants_edit_body(db, arg)

\* mutant: the handler does not look at what the dependency returned
Handler_NoGateCheck(route, db, gate, arg, commitOk) ==
    LET b == BodyOf(route, db, gate.user, arg, commitOk)
    IN  [db |-> b.db, resp |-> b.resp, reads |-> b.reads, writes |-> b.writes,
         body |-> 1]

\* every protected handler starts with
\*     if isinstance(current_user, RedirectResponse): return current_user
Handler(route, db, gate, arg, commitOk) ==
    IF gate.kind = "redirect"
    THEN [db |-> db, resp |-> RedirectResponse(gate.location), reads |-> FALSE,
          writes |-> FALSE, body |-> 0]
    ELSE LET b == BodyOf(route, db, gate.user, arg, commitOk)
         IN  [db |-> b.db, resp |-> b.resp, reads |-> b.reads, writes |-> b.writes,
              body |-> 1]

\* the dependency of a protected route, evaluated before the handler is called
Dependency(route, arg, token, store, t, strict) ==
    CASE GateOf(route) = "get_current_user_or_redirect" ->
            get_current_user_or_redirect(UrlOf(route, arg), token, store, t, strict)
      [] GateOf(route) = "require_user" ->
            require_user(UrlOf(route, arg), token, store, t, strict)
      [] GateOf(route) = "get_current_user" ->
            get_current_user(token, store, t, "session", strict)

(***************************************************************************)
(* Login                                                                   *)
(***************************************************************************)
\* routes/login.py validate_login_form: {} (no error) or the last message set
validate_login_form(phone, password) ==
    LET p == Strip(phone)
        w == Strip(password)
        e1 == IF p = <<>> THEN <<"Phone number is required">>
              ELSE IF ~KenyanPhoneMatch(p) THEN <<"Invalid Kenyan phone format">>
              ELSE <<>>
    IN  IF w = <<>> THEN <<"Password is required">> ELSE e1

\* select(Users).where(Users.phone == phone).scalar_one_or_none()
UserByPhone(store, phone) ==
    LET S == {u \in DOMAIN store : store[u].phone = phone}
    IN  IF S = {} THEN NoUser ELSE CHOOSE u \in S : TRUE

\* mutant: the digest is not compared
authenticate_user_PhoneOnly(store, phone, password) == UserByPhone(store, phone)

\* utils/helper_auth.py authenticate_user (utils/helpers.py has the same):
\* the user, or NoUser for None
authenticate_user(store, phone, password) ==
    LET user == UserByPhone(store, phone)
    IN  IF user # NoUser /\ store[user].password = hash_password(password)
        THEN user
        ELSE NoUser

render_login(errors) == TemplateResponse("login.html", None, errors)

\* mutant: the password digest is not compared
post_login_NoPasswordCheck(store, phone, password, next, t, offset, dbOk) ==
    LET errors == validate_login_form(phone, password)
        phone2 == normalize_phone(phone)
        user == UserByPhone(store, phone2)
        access_token == create_access_token([sub |-> UuidText(user)], 0, t, offset)
        next_url == IF next = <<>> THEN <<"/dashboard">> ELSE next
    IN  IF errors # <<>> THEN render_login(errors)
        ELSE IF ~dbOk THEN render_login(<<"An error occurred. Please try again.">>)
        ELSE IF user = NoUser
        THEN render_login(<<"User with phone: ">> \o phone2 \o <<" does not exist">>)
        ELSE IF access_token.kind # "jwt"
        THEN render_login(<<"An error occurred. Please try again.">>)
        ELSE [RedirectResponse(next_url) EXCEPT
                !.set_cookie = access_token,
                !.max_age = ACCESS_TOKEN_EXPIRE_MINUTES * 60]

\* routes/login.py post_login; dbOk: the user query succeeds; next = <<>>: the
\* request has no next query parameter
post_login(store, phone, password, next, t, offset, dbOk) ==
    LET errors == validate_login_form(phone, password)
        phone2 == normalize_phone(phone)
        user == UserByPhone(store, phone2)
        access_token == create_access_token([sub |-> UuidText(user)], 0, t, offset)
        next_url == IF next = <<>> THEN <<"/dashboard">> ELSE next
    IN  IF errors # <<>> THEN render_login(errors)
        ELSE IF ~dbOk THEN render_login(<<"An error occurred. Please try again.">>)
        ELSE IF user = NoUser
        THEN render_login(<<"User with phone: ">> \o phone2 \o <<" does not exist">>)
        ELSE IF hash_password(password) # store[user].password
        THEN render_login(<<"Incorrect password">>)
        ELSE IF access_token.kind # "jwt"
        THEN render_login(<<"An error occurred. Please try again.">>)
        ELSE [RedirectResponse(next_url) EXCEPT
                !.set_cookie = access_token,
                !.max_age = ACCESS_TOKEN_EXPIRE_MINUTES * 60]

\* core/templating.py login_required: wrapper(request) around func
login_required(token, store, t, strict) ==
    LET user_or_redirect == get_current_user(token, store, t, "Depends", strict)
    IN  IF user_or_redirect.kind = "raise"
        THEN [resp |-> ErrorResponse(user_or_redirect.exc), calls |-> 0,
              state_user |-> NoUser, gate |-> user_or_redirect]
        ELSE IF user_or_redirect.kind = "redirect"
        THEN [resp |-> RedirectResponse(user_or_redirect.location), calls |-> 0,
              state_user |-> NoUser, gate |-> user_or_redirect]
        ELSE [resp |-> TemplateResponse("func", None, <<>>), calls |-> 1,
              state_user |-> user_or_redirect.user, gate |-> user_or_redirect]

(***************************************************************************)
(* Inputs                                                                  *)
(***************************************************************************)
FarFuture == 100 * ACCESS_TOKEN_EXPIRE_MINUTES * 60

\* timedelta arguments of create_access_token, in seconds (0: none given)
Ttls == {60, ACCESS_TOKEN_EXPIRE_MINUTES * 60}

\* the users in whose name requests are sent
Clients == {"u1"}

\* tokens create_access_token issues at time t
Minted(t, offset) ==
    LET made == {create_access_token([sub |-> UuidText(u)], ttl, t, offset) :
                    u \in Clients, ttl \in Ttls}
                \cup {create_access_token([sub |-> UuidText(UnknownId)], 0, t, offset)}
    IN  {m \in made : m.kind = "jwt"}

\* cookies a client can send without having been issued them
ForgedTokens ==
    {NoCookie, EmptyCookie, Garbage,
     Jwt(OtherKey, FarFuture, UuidText("u1")),
     Jwt(OtherKey, 0, UuidText("u1")),
     Jwt(SECRET_KEY, 0, UuidText("u1")),
     Jwt(SECRET_KEY, FarFuture, NoSub),
     Jwt(SECRET_KEY, FarFuture, DigitsText),
     Jwt(SECRET_KEY, FarFuture, OtherText)}

NoJar == [value |-> NoCookie, expires |-> 0]

\* the cookie the browser still holds
Held(jar, t) == IF t < jar.expires THEN {jar.value} ELSE {}

PhoneInputs ==
    {<<"0", "7", "1", "2", "3", "4", "5", "6", "7", "8">>,
     <<"+", "2", "5", "4", "7", "1", "2", "3", "4", "5", "6", "7", "8">>,
     <<"0", "7", "1", "2", "3", "4", "5", "6", "7", "8", " ">>,
     <<"0", "7", "9", "9", "9", "9", "9", "9", "9", "9">>,
     <<"1", "2", "3", "4", "5">>,
     <<>>}

PasswordInputs == {Secret123, <<"x">>, <<" ">>, <<>>}

\* arguments of authenticate_user
AuthPhones == {Phone1, Phone2} \cup PhoneInputs
AuthPasswords == PasswordInputs \cup {Pw2}

NextInputs == {<<>>, <<"/tenants">>, <<"http://evil.example/">>}

(***************************************************************************)
(* Actions                                                                 *)
(***************************************************************************)
Init ==
    /\ users = InitUsers
    /\ rows = InitRows
    /\ now = 0
    /\ ticks = 0
    /\ tz \in TzOffsets
    /\ cookie = NoJar
    /\ req = Idle
    /\ SECRET_KEY = JWT_SECRET_KEY

\* time passes
Tick ==
    /\ ticks < MaxTicks
    /\ \E d \in TickSteps : now' = now + d
    /\ ticks' = ticks + 1
    /\ UNCHANGED <<users, rows, tz, cookie, req, SECRET_KEY>>

\* mutant: the resolver stamps the user it resolved
Begin_WritesUser ==
    /\ req.phase = "idle"
    /\ \E route \in ProtectedRoutes :
       \E arg \in ArgsOf(route) :
       \E token \in ForgedTokens \cup Held(cookie, now) \cup Minted(now, tz) :
       \E strict \in BOOLEAN :
          LET g == Dependency(route, arg, token, users, now, strict)
          IN  /\ req' = [phase |-> IF g.kind = "raise" THEN "done" ELSE "resolved",
                         route |-> route, arg |-> arg, token |-> token, at |-> now,
                         gate |-> g,
                         resp |-> IF g.kind = "raise" THEN ErrorResponse(g.exc)
                                  ELSE NoResp,
                         ran |-> NoRan, call |-> NoCall]
              /\ users' = IF g.kind = "user"
                          THEN [users EXCEPT ![g.user].status = "seen"]
                          ELSE users
    /\ UNCHANGED <<rows, now, ticks, tz, cookie, SECRET_KEY>>

\* a request to a protected route arrives and its dependency is evaluated;
\* when the dependency raises, the framework answers and the handler is not
\* called
Begin ==
    /\ req.phase = "idle"
    /\ \E route \in ProtectedRoutes :
       \E arg \in ArgsOf(route) :
       \E token \in ForgedTokens \cup Held(cookie, now) \cup Minted(now, tz) :
       \E strict \in BOOLEAN :
          LET g == Dependency(route, arg, token, users, now, strict)
          IN  req' = [phase |-> IF g.kind = "raise" THEN "done" ELSE "resolved",
                      route |-> route, arg |-> arg, token |-> token, at |-> now,
                      gate |-> g,
                      resp |-> IF g.kind = "raise" THEN ErrorResponse(g.exc)
                               ELSE NoResp,
                      ran |-> NoRan, call |-> NoCall]
    /\ UNCHANGED <<users, rows, now, ticks, tz, cookie, SECRET_KEY>>

\* the handler of the request runs with the dependency's value
Handle ==
    /\ req.phase = "resolved"
    /\ \E commitOk \in BOOLEAN :
          LET h == Handler(req.route, rows, req.gate, req.arg, commitOk)
          IN  /\ rows' = h.db
              /\ req' = [req EXCEPT !.phase = "done", !.resp = h.resp,
                                    !.ran = [body |-> h.body, reads |-> h.reads,
                                             writes |-> h.writes,
                                             state_user |-> NoUser]]
    /\ UNCHANGED <<users, now, ticks, tz, cookie, SECRET_KEY>>

\* POST /login
PostLogin ==
    /\ req.phase = "idle"
    /\ \E phone \in PhoneInputs :
       \E password \in PasswordInputs :
       \E next \in NextInputs :
       \E dbOk \in BOOLEAN :
          LET r == post_login(users, phone, password, next, now, tz, dbOk)
          IN  req' = [phase |-> "done", route |-> "login",
                      arg |-> [NoArg EXCEPT !.phone = phone, !.password = password,
                                            !.next = next],
                      token |-> NoCookie, at |-> now, gate |-> NoGate, resp |-> r,
                      ran |-> [NoRan EXCEPT !.body = 1, !.reads = dbOk],
                      call |-> NoCall]
    /\ UNCHANGED <<users, rows, now, ticks, tz, cookie, SECRET_KEY>>

\* an operation wrapped by login_required is called with the request
CallWrapped ==
    /\ req.phase = "idle"
    /\ \E token \in ForgedTokens \cup Held(cookie, now) \cup Minted(now, tz) :
       \E strict \in BOOLEAN :
          LET w == login_required(token, users, now, strict)
          IN  req' = [phase |-> "done", route |-> "wrapped", arg |-> NoArg,
                      token |-> token, at |-> now, gate |-> w.gate, resp |-> w.resp,
                      ran |-> [body |-> w.calls, reads |-> FALSE, writes |-> FALSE,
                               state_user |-> w.state_user],
                      call |-> NoCall]
    /\ UNCHANGED <<users, rows, now, ticks, tz, cookie, SECRET_KEY>>

\* authenticate_user(phone, password, session) is called
Authenticate ==
    /\ req.phase = "idle"
    /\ \E phone \in AuthPhones :
       \E password \in AuthPasswords :
          LET u == authenticate_user(users, phone, password)
          IN  req' = [phase |-> "done", route |-> "authenticate",
                      arg |-> [NoArg EXCEPT !.phone = phone, !.password = password],
                      token |-> NoCookie, at |-> now,
                      gate |-> IF u = NoUser THEN NoGate ELSE RetUser(u),
                      resp |-> NoResp,
                      ran |-> [NoRan EXCEPT !.body = 1, !.reads = TRUE],
                      call |-> NoCall]
    /\ UNCHANGED <<users, rows, now, ticks, tz, cookie, SECRET_KEY>>

\* the response is sent and the request ends; the browser stores the cookie a
\* response sets.  Nothing of the request is kept on the server.
Reply ==
    /\ req.phase = "done"
    /\ cookie' = IF req.resp.set_cookie.kind = "jwt"
                 THEN [value |-> req.resp.set_cookie,
                       expires |-> now + req.resp.max_age]
                 ELSE cookie
    /\ req' = Idle
    /\ UNCHANGED <<users, rows, now, ticks, tz, SECRET_KEY>>

Next == Tick \/ Begin \/ Handle \/ PostLogin \/ CallWrapped \/ Authenticate \/ Reply

Spec == Init /\ [][Next]_vars

\* the process started with or without JWT_SECRET_KEY in its environment;
\* lifespan (main.py) only awaits init_db()
InitEnv ==
    /\ users = InitUsers
    /\ rows = InitRows
    /\ now = 0
    /\ ticks = 0
    /\ tz \in TzOffsets
    /\ cookie = NoJar
    /\ req = Idle
    /\ SECRET_KEY \in {JWT_SECRET_KEY, None}

SpecEnv == InitEnv /\ [][Next]_vars

(***************************************************************************)
(* Direct calls of the update helpers of routes/                           *)
(***************************************************************************)
\* the rows the calls start from: one row per table and a second tenant
InitRowsOps ==
    [t \in Tables |->
        [r \in (IF t = "tenants" THEN {"r1", "r2"} ELSE RowIds) |-> NewRow(t, r)]]

\* the user the calls are made for (the rows were created by u1)
Caller == "u2"

\* id arguments: of a row, of no row, no UUID
IdInputs(table) ==
    IF table \in {"landlords", "tenants"} THEN {"r1", "r9", "bad"} ELSE {"r1", "bad"}

\* updates mappings: one the handlers pass, one that names the read-only and
\* the audit fields beside a column, one with a name that is no column, and
\* the toggle of update_landlord
UpdatesInputs(table) ==
    {[status |-> "deleted"],
     [id |-> "r9", created_at |-> 5, created_by |-> "u2", updated_by |-> "u1",
      name |-> "n1"],
     [status |-> "occupied", house_unit_id |-> "r1"]}
    \cup (IF table = "landlords" THEN {[toggle_status |-> TRUE]} ELSE {})

\* the call returns r: the session's commit has changed the rows or not
Called(fn, table, id, updates, r) ==
    /\ rows' = r.db
    /\ req' = [Idle EXCEPT
                !.phase = "done", !.route = fn,
                !.ran = [NoRan EXCEPT !.body = 1, !.reads = TRUE, !.writes = r.wrote],
                !.call = [fn |-> fn, table |-> table, id |-> id, updates |-> updates,
                          user |-> Caller, ret |-> r.ret]]
    /\ UNCHANGED <<users, now, ticks, tz, cookie, SECRET_KEY>>

UpdateLandlord ==
    \E id \in IdInputs("landlords") : \E updates \in UpdatesInputs("landlords") :
    \E commitOk \in BOOLEAN :
        Called("update_landlord", "landlords", id, updates,
               update_landlord(rows, Caller, id, updates, commitOk))

UpdateApartment ==
    \E id \in IdInputs("apartments") : \E updates \in UpdatesInputs("apartments") :
    \E commitOk \in BOOLEAN :
        Called("update_apartment", "apartments", id, updates,
               update_apartment(rows, Caller, id, updates, "updated", commitOk))

UpdateHouseUnit ==
    \E id \in IdInputs("house_units") : \E updates \in UpdatesInputs("house_units") :
    \E commitOk \in BOOLEAN :
        Called("update_house_unit", "house_units", id, updates,
               update_house_unit(rows, Caller, id, updates, "updated", commitOk))

UpdateTenant ==
    \E id \in IdInputs("tenants") : \E updates \in UpdatesInputs("tenants") :
    \E commitOk \in BOOLEAN :
        Called("update_tenant", "tenants", id, updates,
               update_tenant(rows, Caller, id, updates, "updated", commitOk))

InitUpdates ==
    /\ users = InitUsers
    /\ rows = InitRowsOps
    /\ now = 0
    /\ ticks = 0
    /\ tz = 0
    /\ cookie = NoJar
    /\ req = Idle
    /\ SECRET_KEY = JWT_SECRET_KEY

NextUpdates == UpdateLandlord \/ UpdateApartment \/ UpdateHouseUnit \/ UpdateTenant

SpecUpdates == InitUpdates /\ [][NextUpdates]_vars

(***************************************************************************)
(* The handlers of routes/landlords.py, entered with a user                *)
(***************************************************************************)
\* phone numbers that pass the handlers' format check (Landlords.phone is
\* unique)
LandlordPhones == {"p1", "p2"}

\* the form of /new-landlord and /edit-landlord: ok says whether it passes
\* the five checks (name, email, id_number, phone format, commission_rate)
FormInputs ==
    {[ok |-> FALSE, phone |-> "p1"]} \cup {[ok |-> TRUE, phone |-> p] : p \in LandlordPhones}

NoForm == [ok |-> FALSE, phone |-> ""]

\* a Landlords row with its unique phone
LandlordRow(id, phone, created_by) ==
    [id |-> id, status |-> "active", created_at |-> 0, created_by |-> created_by,
     updated_by |-> NoUser, phone |-> phone]

\* the rows of Packages named "TRIAL"
TrialPackages(db) ==
    {p \in DOMAIN db["packages"] : db["packages"][p].name = "TRIAL"}

\* the unique index on Landlords.phone, checked by the database at commit
PhoneTaken(db, id, phone) ==
    \E r \in DOMAIN db["landlords"] \ {id} : db["landlords"][r].phone = phone

\* uuid4(): the id of a new row
NewLandlordIds == <<"r2", "r3">>
FreshLandlordId(db) ==
    IF NewLandlordIds[1] \notin DOMAIN db["landlords"]
    THEN NewLandlordIds[1] ELSE NewLandlordIds[2]
LicenseIdOf(landlord_id) == <<"license", landlord_id>>

Insert(db, table, id, row) ==
    [db EXCEPT ![table] = [r \in DOMAIN db[table] \cup {id} |->
                              IF r = id THEN row ELSE db[table][r]]]

\* routes/landlords.py post_new_landlord; trial_package.id and
\* trial_package.validity are read before the try block
post_new_landlord(db, current_user, form, commitOk) ==
    IF ~form.ok
    THEN Body(db, TemplateResponse("landlords-new.html", None, <<"errors">>),
              FALSE, FALSE)
    ELSE IF TrialPackages(db) = {}
    THEN Body(db, ErrorResponse("AttributeError"), TRUE, FALSE)
    ELSE
        LET trial_package == CHOOSE p \in TrialPackages(db) : TRUE
            id == FreshLandlordId(db)
            new_landlord == LandlordRow(id, form.phone, current_user)
            new_license == [id |-> LicenseIdOf(id), package_id |-> trial_package,
                            landlord_id |-> id, created_by |-> current_user]
        IN  IF commitOk /\ ~PhoneTaken(db, id, form.phone)
            THEN Body(Insert(Insert(db, "landlords", id, new_landlord),
                             "licenses", LicenseIdOf(id), new_license),
                      TemplateResponse("landlords-new.html", "created", <<>>),
                      TRUE, TRUE)
            ELSE Body(db, TemplateResponse("landlords-new.html", None, <<"general">>),
                      TRUE, FALSE)

\* routes/landlords.py post_edit
post_edit(db, current_user, id, form, commitOk) ==
    IF ~form.ok
    THEN Body(db, TemplateResponse("landlords-new.html", None, <<"errors">>),
              FALSE, FALSE)
    ELSE
        LET r == update_landlord(db, current_user, id,
                                 [name |-> "n1", phone |-> form.phone],
                                 commitOk /\ ~PhoneTaken(db, id, form.phone))
        IN  IF Len(r.ret) # 3
            THEN Body(r.db, ErrorResponse("ValueError"), TRUE, r.wrote)
            ELSE Body(r.db, TemplateResponse("landlords-edit.html", r.ret[1],
                                             Msg(r.ret[2])),
                      TRUE, r.wrote)

\* the handler has answered
Entered(route, arg, form, b) ==
    /\ rows' = b.db
    /\ req' = [Idle EXCEPT
                !.phase = "done", !.route = route, !.arg = arg, !.resp = b.resp,
                !.ran = [NoRan EXCEPT !.body = 1, !.reads = b.reads,
                                      !.writes = b.writes],
                !.call = [NoCall EXCEPT !.fn = route, !.id = arg.id,
                                        !.updates = form, !.user = Caller]]
    /\ UNCHANGED <<users, now, ticks, tz, cookie, SECRET_KEY>>

\* id parameters: absent, of a row, of no row, no UUID
LandlordIdInputs == {"", "r1", "r9", "bad"}

\* GET /landlords?toggle_status_id=..&delete_id=..
GetLandlords ==
    \E t \in LandlordIdInputs : \E d \in LandlordIdInputs : \E commitOk \in BOOLEAN :
        LET arg == [NoArg EXCEPT !.toggle_status_id = t, !.delete_id = d]
        IN  Entered("landlords", arg, NoForm,
                    landlords_body(rows, Caller, arg, commitOk))

\* POST /new-landlord
PostNewLandlord ==
    \E form \in FormInputs : \E commitOk \in BOOLEAN :
        Entered("new_landlord", NoArg, form,
                post_new_landlord(rows, Caller, form, commitOk))

\* POST /edit-landlord?id=..
PostEditLandlord ==
    \E id \in LandlordIdInputs : \E form \in FormInputs : \E commitOk \in BOOLEAN :
        Entered("edit_landlord", [NoArg EXCEPT !.id = id], form,
                post_edit(rows, Caller, id, form, commitOk))

\* one landlord with its licence; the packages table holds a TRIAL package
\* or it does not
InitRowsLandlords(trial) ==
    [t \in Tables \cup {"packages", "licenses"} |->
        CASE t = "landlords" -> [r \in RowIds |-> LandlordRow(r, "p1", "u1")]
          [] t = "packages" ->
                [p \in {"k1"} |-> [id |-> p, name |-> IF trial THEN "TRIAL" ELSE "BASIC"]]
          [] t = "licenses" ->
                [l \in {LicenseIdOf(r) : r \in RowIds} |->
                    [id |-> l, package_id |-> "k1", landlord_id |-> l[2],
                     created_by |-> "u1"]]
          [] OTHER -> [r \in RowIds |-> NewRow(t, r)]]

InitLandlords ==
    /\ users = InitUsers
    /\ \E trial \in BOOLEAN : rows = InitRowsLandlords(trial)
    /\ now = 0
    /\ ticks = 0
    /\ tz = 0
    /\ cookie = NoJar
    /\ req = Idle
    /\ SECRET_KEY = JWT_SECRET_KEY

NextLandlords == GetLandlords \/ PostNewLandlord \/ PostEditLandlord

SpecLandlords == InitLandlords /\ [][NextLandlords]_vars

(***************************************************************************)
(* The handlers of routes/tenants.py that write, entered with a user       *)
(***************************************************************************)
\* parse_uuid(value, error_msg)[0]: the UUID, or None for text that is none
parse_uuid(value) == IF IsUuidText(value) THEN value ELSE None

\* routes/tenants.py create_tenant
create_tenant(db, current_user, form, commitOk) ==
    LET id == "r3"
    IN  IF ~form.ok
        THEN Body(db, TemplateResponse("tenants-new.html", None, <<"errors">>),
                  FALSE, FALSE)
        ELSE IF commitOk /\ id \notin DOMAIN db["tenants"]
        THEN Body(Insert(db, "tenants", id,
                         [NewRow("tenants", id) EXCEPT !.created_by = current_user]),
                  TemplateResponse("tenants-new.html", "created", <<>>), FALSE, TRUE)
        ELSE Body(db, TemplateResponse("tenants-new.html", None, <<"general">>),
                  FALSE, FALSE)

\* routes/tenants.py edit_tenant
edit_tenant(db, current_user, id, form, commitOk) ==
    IF ~form.ok
    THEN Body(db, TemplateResponse("tenants-new.html", None, <<"errors">>),
              FALSE, FALSE)
    ELSE
        LET r == update_tenant(db, current_user, id, [name |-> "n1"], "updated",
                               commitOk)
        IN  Body(r.db, TemplateResponse("tenants-edit.html", r.ret[1], Msg(r.ret[2])),
                 TRUE, r.wrote)

\* routes/tenants.py assign_tenant_house_unit
assign_tenant_house_unit(db, current_user, id, house_unit_id, commitOk) ==
    LET r == update_tenant(db, current_user, id,
                           [status |-> "occupied",
                            house_unit_id |-> parse_uuid(house_unit_id)],
                           "assigned house", commitOk)
    IN  Body(r.db,
             TemplateResponse("tenants-assign-house-unit.html", r.ret[1],
                              Msg(r.ret[2])),
             TRUE, r.wrote)

TenantIdInputs == {"r1", "r2", "r3", "bad"}
HouseUnitIdInputs == {"r1", "r9", "bad"}

\* POST /tenants with delete_id or restore_id
PostTenants ==
    \E id \in TenantIdInputs : \E commitOk \in BOOLEAN :
    \E arg \in {[NoArg EXCEPT !.delete_id = id], [NoArg EXCEPT !.restore_id = id]} :
        Entered("tenants_post", arg, NoForm,
                tenants_post_body(rows, Caller, arg, commitOk))

\* POST /tenants/new
CreateTenant ==
    \E form \in FormInputs : \E commitOk \in BOOLEAN :
        Entered("tenants_new", NoArg, form, create_tenant(rows, Caller, form, commitOk))

\* POST /tenants/edit/{id}
EditTenant ==
    \E id \in TenantIdInputs : \E form \in FormInputs : \E commitOk \in BOOLEAN :
        Entered("tenants_edit", [NoArg EXCEPT !.id = id], form,
                edit_tenant(rows, Caller, id, form, commitOk))

\* POST /tenants/assign-house-unit/{id}
AssignTenantHouseUnit ==
    \E id \in TenantIdInputs : \E h \in HouseUnitIdInputs : \E commitOk \in BOOLEAN :
        Entered("tenants_assign", [NoArg EXCEPT !.id = id], [house_unit_id |-> h],
                assign_tenant_house_unit(rows, Caller, id, h, commitOk))

\* POST /house-units with delete_id
DeleteHouseUnit ==
    \E commitOk \in BOOLEAN :
        LET arg == [NoArg EXCEPT !.delete_id = "r1"]
        IN  Entered("house_units_delete", arg, NoForm,
                    house_units_delete_body(rows, Caller, arg, commitOk))

NextTenants ==
    PostTenants \/ CreateTenant \/ EditTenant \/ AssignTenantHouseUnit
        \/ DeleteHouseUnit

SpecTenants == InitUpdates /\ [][NextTenants]_vars

(***************************************************************************)
(* Two requests in flight, each with a session of its own: the SELECT and  *)
(* the commit of an update helper are two steps.  Here req maps each       *)
(* request to its position.                                                *)
(***************************************************************************)
Sessions == {"A", "B"}
SessionUser(s) == IF s = "A" THEN "u1" ELSE Caller

\* the calls the handlers make: toggle and delete of GET /landlords, the
\* edit of POST /edit-landlord, delete and restore of POST /tenants
TxCalls ==
    {[fn |-> "update_landlord", table |-> "landlords", updates |-> [toggle_status |-> TRUE]],
     [fn |-> "update_landlord", table |-> "landlords", updates |-> [status |-> "deleted"]],
     [fn |-> "update_landlord", table |-> "landlords", updates |-> [name |-> "n1"]],
     [fn |-> "update_tenant", table |-> "tenants", updates |-> [status |-> "deleted"]],
     [fn |-> "update_tenant", table |-> "tenants", updates |-> [status |-> "unassigned"]]}

NoTx ==
    [phase |-> "idle", fn |-> "", table |-> "", id |-> "", updates |-> <<>>,
     loaded |-> <<>>, overlapped |-> FALSE]

\* the object after the helper's assignments, given the row its SELECT loaded
Modified(c, user, loaded) ==
    LET db == [t \in {c.table} |-> [r \in {c.id} |-> loaded]]
        r == IF c.fn = "update_landlord"
             THEN update_landlord(db, user, c.id, c.updates, TRUE)
             ELSE update_tenant(db, user, c.id, c.updates, "updated", TRUE)
    IN  r.db[c.table][c.id]

\* session.commit(): the UPDATE sets the columns whose value differs from
\* the loaded one, in the row as it is now
Flush(current, loaded, modified) ==
    LET changed == {f \in DOMAIN modified :
                        f \notin DOMAIN loaded \/ modified[f] # loaded[f]}
    IN  [f \in DOMAIN current \cup changed |->
            IF f \in changed THEN modified[f] ELSE current[f]]

\* session.execute(select(..).where(.. .id == ..)).scalar_one_or_none()
TxSelect(s) ==
    /\ req[s].phase = "idle"
    /\ \E c \in TxCalls :
        req' = [req EXCEPT ![s] =
                  [NoTx EXCEPT !.phase = "loaded", !.fn = c.fn, !.table = c.table,
                               !.id = "r1", !.updates = c.updates,
                               !.loaded = rows[c.table]["r1"]]]
    /\ UNCHANGED <<users, rows, now, ticks, tz, cookie, SECRET_KEY>>

\* the assignments, then session.commit()
TxCommit(s) ==
    /\ req[s].phase = "loaded"
    /\ LET c == req[s]
           o == CHOOSE x \in Sessions : x # s
       IN  /\ rows' = [rows EXCEPT ![c.table][c.id] =
                          Flush(rows[c.table][c.id], c.loaded,
                                Modified(c, SessionUser(s), c.loaded))]
           /\ req' = [x \in Sessions |->
                        IF x = s THEN [c EXCEPT !.phase = "committed"]
                        ELSE IF req[o].phase = "loaded"
                        THEN [req[o] EXCEPT !.overlapped = TRUE]
                        ELSE req[o]]
    /\ UNCHANGED <<users, now, ticks, tz, cookie, SECRET_KEY>>

\* both requests are answered; the next two arrive
TxNextPair ==
    /\ \A s \in Sessions : req[s].phase = "committed"
    /\ req' = [s \in Sessions |-> NoTx]
    /\ UNCHANGED <<users, rows, now, ticks, tz, cookie, SECRET_KEY>>

InitTx ==
    /\ users = InitUsers
    /\ rows = InitRows
    /\ now = 0
    /\ ticks = 0
    /\ tz = 0
    /\ cookie = NoJar
    /\ req = [s \in Sessions |-> NoTx]
    /\ SECRET_KEY = JWT_SECRET_KEY

NextTx == (\E s \in Sessions : TxSelect(s) \/ TxCommit(s)) \/ TxNextPair

SpecTx == InitTx /\ [][NextTx]_vars

(***************************************************************************)
(* Vocabulary of the properties                                            *)
(***************************************************************************)
InFlight == req.phase # "idle"
Done == req.phase = "done"
OnProtected == InFlight /\ req.route \in ProtectedRoutes

\* the gates that answer a failed resolution with a redirect
Interactive(route) ==
    GateOf(route) \in {"get_current_user_or_redirect", "require_user"}

\* a token create_access_token({"sub": str(user.id)}, ttl) returns for a user
\* of the store
IssuedToUser(token) ==
    /\ token.kind = "jwt"
    /\ token.wellformed
    /\ token.key = SECRET_KEY
    /\ token.sub.kind = "uuid"
    /\ token.sub.v \in DOMAIN users

\* the four ways of not being authenticated
Missing(token) == token.kind \in {"absent", "empty"}
MalformedOrForged(token) ==
    token.kind = "jwt" /\ (~token.wellformed \/ token.key # SECRET_KEY)
Expired(token, t) ==
    token.kind = "jwt" /\ token.wellformed /\ token.key = SECRET_KEY /\ token.exp < t
UnknownSubject(token, t) ==
    /\ token.kind = "jwt"
    /\ token.wellformed
    /\ token.key = SECRET_KEY
    /\ t < token.exp
    /\ token.sub.kind = "uuid"
    /\ token.sub.v \notin DOMAIN users

LoginLocation(loc) == loc # <<>> /\ Head(loc) = "/login?next="

\* the response of a gate that treats the request as not authenticated
Rejected ==
    \/ req.gate.kind = "redirect" /\ LoginLocation(req.gate.location)
    \/ req.gate.kind = "raise" /\ req.gate.exc = "HTTPException401"

(***************************************************************************)
(* C1                                                                      *)
(***************************************************************************)
\* C1: a token issued by create_access_token for a user of the store, sent as
\* the access_token cookie before its expiry, makes the dependency of every
\* protected route return that user (no redirect, no 401).
C1_FreshTokenResolves ==
    (OnProtected /\ IssuedToUser(req.token) /\ req.at < req.token.exp)
        => req.gate = RetUser(req.token.sub.v)

(***************************************************************************)
(* C2                                                                      *)
(***************************************************************************)
\* C2: the body of a protected handler (its database reads and writes) runs
\* only in a request whose own cookie was verified at that request's time and
\* names a user of the store; the row changes carry that user's id.
C2_HandlerNeedsResolvedUser ==
    (OnProtected /\ (req.ran.body > 0 \/ req.ran.reads \/ req.ran.writes))
        => /\ req.gate.kind = "user"
           /\ req.gate.user \in DOMAIN users
           /\ ~Missing(req.token)
           /\ req.token.wellformed
           /\ req.token.key = SECRET_KEY
           /\ req.at < req.token.exp
           /\ req.token.sub = UuidText(req.gate.user)

C2_Witness ==
    /\ Done
    /\ req.route = "tenants_post"
    /\ req.ran.writes
    /\ req.gate.kind = "user"
    /\ rows["tenants"]["r1"].status = "deleted"

(***************************************************************************)
(* C3                                                                      *)
(***************************************************************************)
\* C3: a token whose exp lies before the time of the request never resolves
\* to a user, whatever its signature and subject; the redirecting gates answer
\* it with the 303 redirect to the login page and the handler body does not
\* run.
C3_ExpiredIsUnauthenticated ==
    (OnProtected /\ req.token.kind = "jwt" /\ req.token.wellformed
                 /\ req.token.exp < req.at)
        => /\ Rejected
           /\ req.ran.body = 0
           /\ Interactive(req.route) => req.gate.kind = "redirect"
           /\ (Done /\ Interactive(req.route))
                => /\ req.resp.status = HTTP_303_SEE_OTHER
                   /\ LoginLocation(req.resp.location)

C3_Witness ==
    /\ Done
    /\ req.route = "dashboard"
    /\ req.token = Jwt(SECRET_KEY, 0, UuidText("u1"))
    /\ req.at = req.token.exp + 1
    /\ req.resp.status = HTTP_303_SEE_OTHER

(***************************************************************************)
(* C4                                                                      *)
(***************************************************************************)
\* C4: a token signed with another secret than SECRET_KEY never resolves to a
\* user, even with an existing subject and an expiry in the future: the gate
\* rejects it and the handler body does not run.
C4_ForeignSignatureIsInvalid ==
    (OnProtected /\ req.token.kind = "jwt" /\ req.token.wellformed
                 /\ req.token.key # SECRET_KEY)
        => /\ Rejected
           /\ req.ran.body = 0

C4_Witness ==
    /\ Done
    /\ req.route = "tenants_post"
    /\ req.token = Jwt(OtherKey, FarFuture, UuidText("u1"))
    /\ req.at < req.token.exp
    /\ req.token.sub.v \in DOMAIN users
    /\ req.resp.status = HTTP_303_SEE_OTHER

(***************************************************************************)
(* C5                                                                      *)
(***************************************************************************)
\* C5: every redirect of a redirecting gate is a 303 to /login?next=P with P
\* the path the request asked for.
C5_RedirectCarriesPath ==
    (Done /\ req.route \in ProtectedRoutes /\ Interactive(req.route)
          /\ req.gate.kind = "redirect")
        => /\ req.resp.status = HTTP_303_SEE_OTHER
           /\ req.resp.location = <<"/login?next=", PathOf(req.route)>>

(***************************************************************************)
(* C6                                                                      *)
(***************************************************************************)
NotAuthenticatedKind(token, t) ==
    \/ Missing(token)
    \/ MalformedOrForged(token)
    \/ Expired(token, t)
    \/ UnknownSubject(token, t)

\* C6: on a given route and request, a missing cookie, a malformed or forged
\* token, an expired token and an unexpired token of an unknown subject (the
\* text of a UUID that no user has) all get the answer the gate gives to a
\* request without cookie, which is a redirect to login or a 401 and never a
\* server error.
C6_SameAnswerForAllFour ==
    (OnProtected /\ NotAuthenticatedKind(req.token, req.at))
        => /\ req.gate =
                Dependency(req.route, req.arg, NoCookie, users, req.at, TRUE)
           /\ Rejected
           /\ req.ran.body = 0
           /\ Done => /\ req.resp.status \in {HTTP_303_SEE_OTHER, HTTP_401_UNAUTHORIZED}
                      /\ req.resp.location = req.gate.location

C6_Witness ==
    /\ Done
    /\ req.route = "dashboard"
    /\ UnknownSubject(req.token, req.at)
    /\ req.resp.status = HTTP_303_SEE_OTHER

(***************************************************************************)
(* C7                                                                      *)
(***************************************************************************)
\* C7: whatever is wrong with a token or its sub claim, resolution ends as
\* not authenticated (login redirect or 401); no other exception leaves the
\* dependency.
C7_NoExceptionEscapes ==
    (OnProtected /\ req.token.kind = "jwt" /\ req.gate.kind # "user") => Rejected

(***************************************************************************)
(* C8                                                                      *)
(***************************************************************************)
\* the cookie held by the browser was set by a login with phone 0712345678
LoggedInAsU1 ==
    /\ cookie.value.kind = "jwt"
    /\ cookie.value.sub = UuidText("u1")
    /\ users["u1"].phone = Phone1

\* C8: after the login of phone 0712345678, a later request that carries the
\* cookie (the token not yet expired) resolves to that user.
C8_LoginThenResolve ==
    (OnProtected /\ LoggedInAsU1 /\ req.token = cookie.value
                 /\ req.at < req.token.exp)
        => req.gate = RetUser("u1")

(***************************************************************************)
(* C9                                                                      *)
(***************************************************************************)
FormPasses(phone, password) ==
    /\ Strip(password) # <<>>
    /\ KenyanPhoneMatch(Strip(phone))

CredentialsMatch(phone, password) ==
    \E u \in DOMAIN users :
        /\ users[u].phone = <<"2", "5", "4">> \o LastN(phone, 9)
        /\ users[u].password = hash_password(password)

\* C9: the response of post_login sets the access_token cookie exactly when
\* the form passes validation, a user has the normalized phone, the digest of
\* the submitted password is that user's and no exception occurred; every
\* other response is the login page with an error and without cookie.
C9_CookieIffCredentials ==
    (Done /\ req.route = "login")
        => /\ (req.resp.set_cookie.kind = "jwt")
                <=> /\ FormPasses(req.arg.phone, req.arg.password)
                    /\ CredentialsMatch(req.arg.phone, req.arg.password)
                    /\ req.ran.reads
           /\ (req.resp.set_cookie.kind = "jwt")
                => /\ IssuedToUser(req.resp.set_cookie)
                   /\ users[req.resp.set_cookie.sub.v].phone
                        = <<"2", "5", "4">> \o LastN(req.arg.phone, 9)
           /\ (req.resp.set_cookie.kind # "jwt")
                => /\ req.resp.set_cookie = NoCookie
                   /\ req.resp.status = 200
                   /\ req.resp.page = "login.html"
                   /\ req.resp.errors # <<>>

C9_Witness ==
    /\ Done
    /\ req.route = "login"
    /\ req.arg.password = Secret123
    /\ req.resp.set_cookie.kind = "jwt"
    /\ req.resp.status = HTTP_303_SEE_OTHER

(***************************************************************************)
(* C10                                                                     *)
(***************************************************************************)
\* the cookie of the request verifies and names a user of the store
Verifies(token, t) == IssuedToUser(token) /\ t < token.exp

\* C10: the login_required wrapper answers an unauthenticated request with the
\* redirect to login without calling the wrapped operation, and for an
\* authenticated one sets request.state.current_user, calls the operation
\* once and returns its result.
C10_WrapperContract ==
    (Done /\ req.route = "wrapped")
        => IF Verifies(req.token, req.at)
           THEN /\ req.ran.state_user = req.token.sub.v
                /\ req.ran.body = 1
                /\ req.resp = TemplateResponse("func", None, <<>>)
           ELSE /\ req.resp.status = HTTP_303_SEE_OTHER
                /\ LoginLocation(req.resp.location)
                /\ req.ran.body = 0

(***************************************************************************)
(* C11                                                                     *)
(***************************************************************************)
\* a request whose gate is helpers.get_current_user itself
OnApiGate ==
    /\ InFlight
    /\ req.route \in ProtectedRoutes
    /\ GateOf(req.route) = "get_current_user"

\* C11: helpers.get_current_user answers every unauthenticated request (no
\* cookie, invalid or expired token, unknown subject) by raising the 401
\* HTTPException, which the client gets as a 401 without Location, and never
\* returns a redirect; for a token that verifies and names a user it returns
\* that user.
C11_ApiGateRejectsWith401 ==
    OnApiGate
        => /\ req.gate.kind # "redirect"
           /\ NotAuthenticatedKind(req.token, req.at)
                => /\ req.gate = Raised("HTTPException401")
                   /\ Done
                   /\ req.resp.status = HTTP_401_UNAUTHORIZED
                   /\ req.resp.location = NoLocation
                   /\ req.ran.body = 0
           /\ Verifies(req.token, req.at)
                => req.gate = RetUser(req.token.sub.v)
           /\ \A u \in DOMAIN users :
                 get_current_user(Jwt(SECRET_KEY, req.at + 1, UuidText(u)), users,
                                  req.at, "session", TRUE) = RetUser(u)

C11_Witness ==
    /\ OnApiGate
    /\ Done
    /\ req.route = "apartments_list"
    /\ Expired(req.token, req.at)
    /\ req.resp.status = HTTP_401_UNAUTHORIZED

(***************************************************************************)
(* C12                                                                     *)
(***************************************************************************)
\* the request got as far as a call of jwt.decode or jwt.encode
ReachedJwt ==
    \/ /\ InFlight
       /\ req.route \in ProtectedRoutes \cup {"wrapped"}
       /\ ~CookieMissing(req.token)
       /\ req.token.wellformed
    \/ /\ Done
       /\ req.route = "login"
       /\ req.ran.reads
       /\ FormPasses(req.arg.phone, req.arg.password)
       /\ CredentialsMatch(req.arg.phone, req.arg.password)

\* C12: a process started without JWT_SECRET_KEY does not serve: it never
\* has a request in flight, and in particular never signs or verifies a token
\* with the absent secret.
C12_AbsentSecretStopsStartup ==
    (SECRET_KEY = None) => (~InFlight /\ ~ReachedJwt)

(***************************************************************************)
(* C13                                                                     *)
(***************************************************************************)
\* a login with well-formed input that failed on the password of an
\* existing user
WrongPassword ==
    /\ Done
    /\ req.route = "login"
    /\ req.ran.reads
    /\ FormPasses(req.arg.phone, req.arg.password)
    /\ UserByPhone(users, normalize_phone(req.arg.phone)) # NoUser
    /\ ~CredentialsMatch(req.arg.phone, req.arg.password)

\* C13: the response to a login that failed on the password is the response
\* the same request gets with a well-formed phone that no user has.
C13_FailuresIndistinguishable ==
    WrongPassword
        => \A phone \in PhoneInputs :
              (FormPasses(phone, req.arg.password)
                 /\ UserByPhone(users, normalize_phone(phone)) = NoUser)
              => post_login(users, phone, req.arg.password, req.arg.next,
                            req.at, tz, TRUE) = req.resp

(***************************************************************************)
(* C14                                                                     *)
(***************************************************************************)
\* C14: hash_password gives equal digests exactly for equal passwords, and
\* authenticate_user returns a user with the given phone whose stored
\* password is the digest of the given password when there is one, and None
\* otherwise.
C14_AuthenticateIffDigestMatches ==
    /\ \A p1, p2 \in AuthPasswords :
          (hash_password(p1) = hash_password(p2)) <=> (p1 = p2)
    /\ (Done /\ req.route = "authenticate")
          => LET S == {u \in DOMAIN users :
                         /\ users[u].phone = req.arg.phone
                         /\ users[u].password = hash_password(req.arg.password)}
             IN  IF S = {} THEN req.gate = NoGate
                 ELSE req.gate.kind = "user" /\ req.gate.user \in S

C14_Witness ==
    /\ Done
    /\ req.route = "authenticate"
    /\ req.arg.phone = Phone1
    /\ req.arg.password = Secret123
    /\ req.gate = RetUser("u1")

(***************************************************************************)
(* C15                                                                     *)
(***************************************************************************)
\* the store after any change of a user's password or status
UserStatuses == {"active", "inactive", "deleted"}

StoreVariants(u) ==
    {[users EXCEPT ![u] = [@ EXCEPT !.password = hash_password(p), !.status = st]] :
        p \in {Secret123, <<"x">>}, st \in UserStatuses}

\* times from t on at which the token is not yet expired
LaterTimes(token, t) ==
    {x \in {t, t + 1, t + DefaultExpireMinutes * 60, token.exp - 1} :
        t <= x /\ x < token.exp}

\* C15: a token that resolves to a user resolves to the same user at every
\* later time before its exp, whatever the user's password and status have
\* become meanwhile; nothing else than the token, the time and the presence
\* of the user's row decides.
C15_NoRevocationBeforeExpiry ==
    (OnProtected /\ req.gate.kind = "user")
        => \A store \in StoreVariants(req.gate.user) :
           \A t \in LaterTimes(req.token, req.at) :
           \A strict \in BOOLEAN :
              Dependency(req.route, req.arg, req.token, store, t, strict) = req.gate

C15_Witness ==
    /\ OnProtected
    /\ req.gate = RetUser("u1")
    /\ req.route = "dashboard"
    /\ req.at + DefaultExpireMinutes * 60 < req.token.exp

(***************************************************************************)
(* C16                                                                     *)
(***************************************************************************)
\* the table whose rows a route lists and soft-deletes
TableOf(route) ==
    CASE route = "landlords" -> "landlords"
      [] route \in {"apartments_list", "apartments_delete"} -> "apartments"
      [] route \in {"house_units_list", "house_units_delete"} -> "house_units"
      [] route = "tenants_post" -> "tenants"
      [] OTHER -> "landlords"

\* C16: no row of a business table is ever removed; a soft delete that was
\* written leaves its row with status "deleted"; and no page shows a row
\* whose status is "deleted" in its list or in its selectors, nor does the
\* dashboard count it; the queries of the landlords list and of the two
\* selectors never return such a row.  (The apartments, house units and
\* tenants pages raise before they list anything, see JoinTenants.)
C16_SoftDeleteKeepsRowAndHidesIt ==
    /\ \A t \in Tables : DOMAIN rows[t] = RowIds
    /\ (Done /\ OnProtected /\ req.ran.writes /\ req.arg.delete_id # "")
          => rows[TableOf(req.route)][req.arg.delete_id].status = "deleted"
    /\ (Done /\ OnProtected /\ req.resp.status = 200)
          => /\ \A r \in req.resp.view.list :
                    rows[TableOf(req.route)][r].status # "deleted"
             /\ \A r \in req.resp.view.landlords :
                    rows["landlords"][r].status # "deleted"
             /\ \A r \in req.resp.view.apartments :
                    rows["apartments"][r].status # "deleted"
             /\ req.route = "dashboard"
                    => \A t \in Tables :
                          req.resp.view.counts[t] =
                            Cardinality({r \in RowIds : rows[t][r].status # "deleted"})
    /\ \A r \in get_landlords(rows) \cup landlords_data(rows).list :
            rows["landlords"][r].status # "deleted"
    /\ \A r \in get_apartments(rows) : rows["apartments"][r].status # "deleted"

C16_Witness ==
    /\ Done
    /\ req.route = "dashboard"
    /\ req.resp.status = 200
    /\ rows["house_units"]["r1"].status = "deleted"
    /\ rows["tenants"]["r1"].status # "deleted"
    /\ req.resp.view.counts["house_units"] = 0
    /\ req.resp.view.counts["tenants"] = 1

(***************************************************************************)
(* C17                                                                     *)
(***************************************************************************)
IsPrefix(s, t) == Len(s) <= Len(t) /\ SubSeq(t, 1, Len(s)) = s

ResolutionOrder == <<"credential", "signature", "expiry", "lookup">>

\* the steps a resolver executes for a token at time t, in the order of its
\* statements: the cookie is read; jwt.decode checks the signature and then
\* exp; the SELECT on Users runs once, after the try block (in
\* get_current_user_or_redirect only when int(sub) did not raise)
ResolutionSteps(gate, token, t) ==
    LET payload == jwt_decode(token, SECRET_KEY, t)
        signed == token.wellformed /\ SECRET_KEY # None /\ token.key = SECRET_KEY
        decoded == IF signed THEN <<"credential", "signature", "expiry">>
                   ELSE <<"credential", "signature">>
    IN  IF CookieMissing(token) THEN <<"credential">>
        ELSE IF payload.exc # "" THEN decoded
        ELSE IF gate = "get_current_user_or_redirect" /\ IntOfSub(payload.sub).exc # ""
        THEN decoded
        ELSE decoded \o <<"lookup">>

\* C17: a resolution runs the steps credential, signature, expiry, lookup in
\* that order and stops at the first that fails; the user store is queried at
\* most once, and only for a token whose signature and expiry were verified;
\* and the resolution ends either with the user or as not authenticated (the
\* redirect to login, or the 401).
C17_SinglePassTwoOutcomes ==
    OnProtected =>
        LET steps == ResolutionSteps(GateOf(req.route), req.token, req.at)
        IN  /\ IsPrefix(steps, ResolutionOrder)
            /\ (Len(steps) = 4)
                  => /\ req.token.wellformed
                     /\ req.token.key = SECRET_KEY
                     /\ req.at < req.token.exp
            /\ req.gate.kind = "user" \/ Rejected

(***************************************************************************)
(* C18                                                                     *)
(***************************************************************************)
\* a step in which a dependency of a protected route, or the wrapper, resolves
\* the identity of a request
ResolutionStep ==
    /\ req.phase = "idle"
    /\ req'.phase # "idle"
    /\ req'.route \in ProtectedRoutes \cup {"wrapped"}

\* C18: a resolution, whatever its outcome, leaves the user store, the
\* business rows, the signing key and the client's cookie as they were, and
\* its outcome is a function of the request, the store and the time alone.
C18_ResolutionReadsOnly ==
    [][ResolutionStep
          => /\ users' = users
             /\ rows' = rows
             /\ cookie' = cookie
             /\ SECRET_KEY' = SECRET_KEY
             /\ req'.route \in ProtectedRoutes
                  => \E strict \in BOOLEAN :
                        req'.gate = Dependency(req'.route, req'.arg, req'.token,
                                               users, now, strict)]_vars

C18_Witness ==
    /\ OnProtected
    /\ req.phase = "resolved"
    /\ req.gate = RetUser("u1")
    /\ users = InitUsers

(***************************************************************************)
(* C19                                                                     *)
(***************************************************************************)
\* C19: the token post_login sets (create_access_token without expires_delta)
\* carries the sub it was given and exp = time of issue + 15 minutes, and with
\* an expires_delta the token's exp is time of issue + expires_delta.
C19_ExpIsIssueTimePlusDelta ==
    (Done /\ req.route = "login" /\ req.resp.set_cookie.kind = "jwt")
        => /\ req.resp.set_cookie =
                Jwt(SECRET_KEY, req.at + DefaultExpireMinutes * 60,
                    req.resp.set_cookie.sub)
           /\ \A ttl \in Ttls :
                create_access_token([sub |-> req.resp.set_cookie.sub], ttl, req.at, tz)
                    = Jwt(SECRET_KEY, req.at + ttl, req.resp.set_cookie.sub)

(***************************************************************************)
(* C20                                                                     *)
(***************************************************************************)
\* 254 followed by nine digits of which the first is 1 or 7
Canonical(phone) ==
    /\ Len(phone) = 12
    /\ SubSeq(phone, 1, 3) = <<"2", "5", "4">>
    /\ phone[4] \in {"1", "7"}
    /\ AllDigits(SubSeq(phone, 5, 12))

\* C20: when validate_login_form accepts the submitted phone, the phone
\* post_login looks up, normalize_phone of the submitted string, is 254
\* followed by the nine national digits of the number.
C20_AcceptedPhoneNormalizesCanonically ==
    (Done /\ req.route = "login"
          /\ validate_login_form(req.arg.phone, req.arg.password) = <<>>)
        => /\ Canonical(normalize_phone(req.arg.phone))
           /\ normalize_phone(req.arg.phone)
                = <<"2", "5", "4">> \o LastN(Strip(req.arg.phone), 9)

(***************************************************************************)
(* C22                                                                     *)
(***************************************************************************)
\* request.query_params.get("next") of a request to the given location: the
\* text after "next=" up to the next "&" or "#"
QueryNext(location) ==
    LET rest == Tail(location)
        stops == {i \in 1..Len(rest) : rest[i] \in {"&", "#"}}
        end == IF stops = {} THEN Len(rest)
               ELSE (CHOOSE i \in stops : \A j \in stops : i <= j) - 1
    IN  SubSeq(rest, 1, end)

\* C22: the redirect require_user answers to an unauthenticated request for
\* path P leads to the login page with next = P, and a successful login with
\* that next answers 303 to P; a successful login without next answers 303 to
\* /dashboard.
C22_ReturnToTarget ==
    /\ (OnProtected /\ GateOf(req.route) = "require_user"
                    /\ req.gate.kind = "redirect")
          => LET P == UrlPath(UrlOf(req.route, req.arg))
                 next == QueryNext(req.gate.location)
                 r == post_login(users,
                                 <<"0", "7", "1", "2", "3", "4", "5", "6", "7", "8">>,
                                 Secret123, next, req.at, tz, TRUE)
             IN  /\ Head(req.gate.location) = "/login?next="
                 /\ next = P
                 /\ r.status = HTTP_303_SEE_OTHER
                 /\ r.location = P
    /\ (Done /\ req.route = "login" /\ req.resp.status = HTTP_303_SEE_OTHER)
          => req.resp.location =
                IF req.arg.next = <<>> THEN <<"/dashboard">> ELSE req.arg.next

(***************************************************************************)
(* C23                                                                     *)
(***************************************************************************)
\* a URL that begins with "/": a path of this site
IsLocalPath(url) ==
    /\ url # <<>>
    /\ Head(url) \in {PathOf(r) : r \in ProtectedRoutes}

\* C23: the redirect of a successful login goes to a path of this site; a
\* next that is no local path is replaced by /dashboard.
C23_LoginRedirectIsLocal ==
    (Done /\ req.route = "login" /\ req.resp.status = HTTP_303_SEE_OTHER)
        => /\ IsLocalPath(req.resp.location)
           /\ (req.arg.next # <<>> /\ ~IsLocalPath(req.arg.next))
                => req.resp.location = <<"/dashboard">>

(***************************************************************************)
(* C24                                                                     *)
(***************************************************************************)
\* C24: the cookie post_login sets expires in the browser when its token
\* expires, and a cookie the browser still holds carries a token that has not
\* expired.
C24_CookieLivesAsLongAsToken ==
    /\ (Done /\ req.route = "login" /\ req.resp.set_cookie.kind = "jwt")
          => req.at + req.resp.max_age = req.resp.set_cookie.exp
    /\ \A c \in Held(cookie, now) : c.kind = "jwt" => now < c.exp

(***************************************************************************)
(* C28                                                                     *)
(***************************************************************************)
UpdateFns == {"update_landlord", "update_apartment", "update_house_unit", "update_tenant"}

\* C28: a call of one of the four update helpers, whatever the updates
\* mapping, leaves id, created_at and created_by of the target row and every
\* other row as they were; when it reports success the row's updated_by is the
\* current user's id, and when it reports an error (invalid id, no such row,
\* a rejected attribute, a failed commit) the rows are unchanged.
C28_UpdateFrame ==
    [][req'.call.fn \in UpdateFns
          => LET c == req'.call
                 succeeded == Len(c.ret) = 3 /\ c.ret[1] # None
             IN  /\ DOMAIN rows' = DOMAIN rows
                 /\ \A t \in DOMAIN rows : DOMAIN rows'[t] = DOMAIN rows[t]
                 /\ \A t \in DOMAIN rows : \A r \in DOMAIN rows[t] :
                        (t # c.table \/ r # c.id) => rows'[t][r] = rows[t][r]
                 /\ c.id \in DOMAIN rows[c.table]
                        => /\ rows'[c.table][c.id].id = rows[c.table][c.id].id
                           /\ rows'[c.table][c.id].created_at
                                = rows[c.table][c.id].created_at
                           /\ rows'[c.table][c.id].created_by
                                = rows[c.table][c.id].created_by
                 /\ succeeded => /\ c.id \in DOMAIN rows[c.table]
                                 /\ rows'[c.table][c.id].updated_by = c.user
                 /\ ~succeeded => rows' = rows]_vars

C28_Witness ==
    /\ req.call.fn = "update_tenant"
    /\ req.call.id = "r1"
    /\ "created_by" \in DOMAIN req.call.updates
    /\ req.call.ret[1] # None
    /\ rows["tenants"]["r1"].name = "n1"
    /\ rows["tenants"]["r1"].created_by = "u1"
    /\ rows["tenants"]["r1"].updated_by = Caller
    /\ rows["tenants"]["r2"] = NewRow("tenants", "r2")

\* C25: once a landlord's status is "deleted", no request to the handlers of
\* routes/landlords.py (toggle_status_id, delete_id, in any combination) gives
\* it another status.
C25_DeletedStaysDeleted ==
    [][\A r \in DOMAIN rows["landlords"] :
          rows["landlords"][r].status = "deleted"
              => /\ r \in DOMAIN rows'["landlords"]
                 /\ rows'["landlords"][r].status = "deleted"]_vars

\* C29: whatever the id (absent, malformed, unknown, of a row) and whether
\* the commit fails or not, GET /landlords and POST /edit-landlord answer
\* with a rendered page: update_landlord returned a triple and no exception
\* left the handler.
C29_LandlordFailureIsRendered ==
    req.route \in {"landlords", "edit_landlord"}
        => /\ req.resp.status = 200
           /\ req.resp.page \in {"landlords.html", "landlords-edit.html",
                                 "landlords-new.html"}

\* the landlords and the licences a step has added
AddedLandlords == DOMAIN rows'["landlords"] \ DOMAIN rows["landlords"]
AddedLicenses == DOMAIN rows'["licenses"] \ DOMAIN rows["licenses"]

\* after POST /new-landlord either a landlord and a licence of it exist that
\* did not before, or no row was added
C30_BothOrNeither ==
    \/ AddedLandlords = {} /\ AddedLicenses = {}
    \/ /\ Cardinality(AddedLandlords) = 1
       /\ Cardinality(AddedLicenses) = 1
       /\ \A k \in AddedLicenses :
            rows'["licenses"][k].landlord_id \in AddedLandlords

\* C30: POST /new-landlord adds the landlord and its TRIAL licence together
\* or adds neither, and every failure (validation, uniqueness, no TRIAL
\* package) re-renders the form with an error.
C30_NewLandlordAtomicAndRendered ==
    [][req'.route = "new_landlord"
          => /\ C30_BothOrNeither
             /\ req'.resp.status = 200
             /\ req'.resp.page = "landlords-new.html"
             /\ (AddedLandlords = {}) => req'.resp.errors # <<>>]_vars

\* the house unit a tenant row holds
HeldUnit(row) == IF "house_unit_id" \in DOMAIN row THEN row.house_unit_id ELSE None

\* C26: after any sequence of tenant create, edit, delete, restore and
\* assign-house-unit requests a tenant has status "occupied" exactly when it
\* holds a house unit of the store; so an assign request with an invalid
\* house_unit_id leaves no tenant occupied, and a restored ("unassigned")
\* tenant holds no house unit.
C26_OccupiedIffHoldsUnit ==
    \A t \in DOMAIN rows["tenants"] :
        rows["tenants"][t].status = "occupied"
            <=> HeldUnit(rows["tenants"][t]) \in DOMAIN rows["house_units"]

\* an assign request with a house_unit_id that is no UUID has been answered
\* for a tenant that was deleted and restored before
C26_Witness ==
    /\ req.route = "tenants_assign"
    /\ req.arg.id = "r1"
    /\ req.call.updates.house_unit_id = "bad"
    /\ req.resp.errors # <<>>
    /\ rows["tenants"]["r1"].status = "unassigned"
    /\ rows["tenants"]["r1"].updated_by = Caller
    /\ "r3" \in DOMAIN rows["tenants"]

Serial(s1, s2) ==
    LET first == Modified(req[s1], SessionUser(s1), req[s1].loaded)
    IN  Modified(req[s2], SessionUser(s2), first)

\* C21: when two requests update the same record concurrently (both load it
\* before either commits), the row stored after both commits is the row one
\* of the two serial orders gives.
C21_ConcurrentUpdatesSerialize ==
    (/\ \A s \in Sessions : req[s].phase = "committed"
     /\ req["A"].table = req["B"].table
     /\ \E s \in Sessions : req[s].overlapped)
        => rows[req["A"].table]["r1"] \in {Serial("A", "B"), Serial("B", "A")}

====
